---- MODULE Spec2Model ----
(***************************************************************************)
(* Model of the server plugin loader, src/plugin-loader.js.                *)
(*                                                                         *)
(* loadPlugins is one asynchronous control flow: the model follows it with *)
(* a program counter pc and splits it where the code awaits (the update    *)
(* of one directory, an import, a plugin's init).  The file system, the    *)
(* imported modules, the behaviour of init and of the exit hooks and the   *)
(* outcome of the git calls are the environment: the listing of the        *)
(* plugins directory is part of the initial state, everything else is      *)
(* drawn when the code first looks at it.  Values thrown by the            *)
(* environment are Error objects (they convert to a string in the catch    *)
(* handlers' log lines).                                                   *)
(***************************************************************************)
EXTENDS Integers, Sequences, FiniteSets, TLC

\* ------------------------------------------------------------------ bounds
MaxFiles == 2
MaxRoutes == 1

VARIABLES
    enableServerPlugins,            \* config flag, read once
    enableServerPluginsAutoUpdate,  \* config flag, read once
    pluginsDir,                     \* "absent" | "unreadable" | "ok"
    listing,                        \* the entries of the plugins directory
    disk,                           \* per entry of the listing, what its files hold ("any": not fixed)
    gitInstalled,                   \* whether the host has git: "yes", "no", or "any" (not fixed)
    pc,                             \* position of loadPlugins
    files,                          \* loadPlugins: const files
    i,                              \* loadPlugins: index of the entry in the for loop
    directories,                    \* updatePlugins: const directories (indices)
    u,                              \* updatePlugins: index in the for loop
    stage,                          \* position in EntryOrder, 0 for a top-level file
    cur,                            \* the module whose init is awaited
    imported,                       \* files imported for the current entry, in order
    last,                           \* how the last loadFromFile of this entry ended
    routed,                         \* router.stack.length > 0 after the init that just ended
    inflight,                       \* entries with a loadFromFile call that has not returned
    loadedPlugins,                  \* Map id -> module (the file it was imported from)
    mounts,                         \* app.use calls, in order
    exitHooks,                      \* loadPlugins: const exitHooks
    setCalls,                       \* id -> number of loadedPlugins.set(id, ..) calls
    fsOps,                          \* file system calls made so far
    gitOps,                         \* git calls made for the directory just updated ({} after the loop)
    gitDirs,                        \* directories git was run in, in order
    gitMissing,                     \* commandExistsSync('git') returned false
    gitReports,                     \* number of "Git is not installed" console.error calls
    repo,                           \* updatePlugins: the repository of the directory just updated (NoRepo outside the loop)
    updateFailed,                   \* directories whose update ended in the catch
    updateEntered,                  \* updatePlugins was called
    teardownFn,                     \* what loadPlugins returned
    hookState,                      \* per exit hook, during teardown
    tdPromise,                      \* state of the teardown call
    tdReason                        \* ids of the hooks the propagated failure comes from

config == <<enableServerPlugins, enableServerPluginsAutoUpdate, pluginsDir, listing, disk,
            gitInstalled>>
loadVars == <<pc, files, i, stage, cur, imported, last, routed, inflight>>
updVars == <<directories, u, gitOps, gitDirs, gitMissing, gitReports, repo, updateFailed,
             updateEntered>>
regVars == <<loadedPlugins, mounts, exitHooks, setCalls>>
tdVars == <<teardownFn, hookState, tdPromise, tdReason>>
vars == <<config, loadVars, updVars, regVars, tdVars, fsOps>>

\* ------------------------------------------------------- JavaScript values
\* A value is represented by its type tag; an id also carries its characters.
Truthy(t) == t \notin {"undefined", "null"}
TypeOf(t) == IF t = "null" THEN "object" ELSE t

LowerCase == {"a", "b", "c", "d", "e", "f", "g", "h", "i", "j", "k", "l", "m",
              "n", "o", "p", "q", "r", "s", "t", "u", "v", "w", "x", "y", "z"}
Digits == {"0", "1", "2", "3", "4", "5", "6", "7", "8", "9"}

isValidPluginIDStar(id) ==
    \A k \in 1..Len(id) : id[k] \in LowerCase \cup Digits \cup {"_", "-"}
\* /^[a-z0-9_-]+$/.test(id)
isValidPluginID(id) ==
    /\ Len(id) >= 1
    /\ \A k \in 1..Len(id) : id[k] \in LowerCase \cup Digits \cup {"_", "-"}

\* ids the modules of the environment declare: two valid, two invalid
IdPool == {<<"a">>, <<"b", "-", "1">>, <<"A">>, <<>>}

StrVal(s) == [t |-> "string", s |-> s]
NoVal == [t |-> "undefined", s |-> <<>>]

InfoObject(id, name, description) ==
    [t |-> "object", id |-> id, name |-> name, description |-> description]
NoInfo == [t |-> "undefined", id |-> NoVal, name |-> "undefined", description |-> "undefined"]
NullInfo == [t |-> "null", id |-> NoVal, name |-> "undefined", description |-> "undefined"]

\* A module namespace: its direct exports and its default export (NoExports
\* when there is none)
Exports(info, init, exit) == [info |-> info, init |-> init, exit |-> exit]
NoExports == Exports(NoInfo, "undefined", "undefined")
Module(direct, def) == [direct |-> direct, def |-> def]
NoModule == Module(NoExports, NoExports)

GoodInfo(id) == InfoObject(StrVal(id), "string", "string")

\* the modules an import can resolve to
ModuleCatalogue ==
    {Module(Exports(GoodInfo(id), "function", ex), NoExports) :
        id \in IdPool, ex \in {"function", "undefined"}}
    \cup
    {Module(NoExports, Exports(GoodInfo(<<"a">>), "function", "function"))}
    \cup
    {Module(Exports(inf, "function", "undefined"), NoExports) :
        inf \in {NoInfo, NullInfo,
                 InfoObject(NoVal, "string", "string"),
                 InfoObject(StrVal(<<"a">>), "string", "number")}}
    \cup
    {Module(Exports(GoodInfo(<<"a">>), "undefined", "undefined"), NoExports)}

\* what init does: the number of routes it adds to its router, and whether it
\* returns or throws (or its promise rejects)
InitBehaviours == [routes : 0..MaxRoutes, threw : BOOLEAN]

\* The files of an entry of the listing are not fixed ("any": an import may
\* throw or resolve to any module of the catalogue, whose init may do
\* anything), or they are those of a given plugin:
\*   "foo.js"  a valid plugin "foo" whose init adds one route, with no exit
\*   "bar"     a directory whose package.json names entry.js, a valid plugin
\*             "bar" whose init adds no route, with an exit function
\*   "baz.js"  a file whose import throws
\*   "twin"    a module declaring the id "a", with or without an init function
FooModule ==
    Module(Exports(GoodInfo(<<"f", "o", "o">>), "function", "undefined"), NoExports)
BarModule ==
    Module(Exports(GoodInfo(<<"b", "a", "r">>), "function", "function"), NoExports)
TwinModules ==
    {Module(Exports(GoodInfo(<<"a">>), ini, "undefined"), NoExports) :
        ini \in {"function", "undefined"}}
ThrowsOnImport(content) == content \in {"any", "baz.js"}
ModulesAt(content) ==
    CASE content = "any" -> ModuleCatalogue
      [] content = "foo.js" -> {FooModule}
      [] content = "bar" -> {BarModule}
      [] content = "twin" -> TwinModules
      [] OTHER -> {}
InitsAt(content) ==
    CASE content = "foo.js" -> {[routes |-> 1, threw |-> FALSE]}
      [] content = "bar" -> {[routes |-> 0, threw |-> FALSE]}
      [] OTHER -> InitBehaviours

\* ------------------------------------------------------------ file system
\* An entry of the plugins directory: a file with its extension, or a
\* directory with what loadFromDirectory finds in it: whether it is empty,
\* its package.json ("absent", "badjson", "nomain" or "main": it declares a
\* main file) and the index files it holds.
IndexFiles == {"index.js", "index.cjs", "index.mjs"}
File(ext) ==
    [isDir |-> FALSE, ext |-> ext, hidden |-> FALSE, empty |-> TRUE,
     pkg |-> "absent", idx |-> {}]
Dir(hidden, empty, pkg, idx) ==
    [isDir |-> TRUE, ext |-> "", hidden |-> hidden, empty |-> empty,
     pkg |-> pkg, idx |-> idx]

FileKinds == {File(ext) : ext \in {".js", ".cjs", ".mjs", ".txt"}}
AllDirs ==
    {Dir(h, TRUE, "absent", {}) : h \in BOOLEAN}
    \cup {Dir(h, FALSE, p, ix) : h \in BOOLEAN,
            p \in {"absent", "badjson", "nomain", "main"}, ix \in SUBSET IndexFiles}
\* the directories of the listings with several entries
SomeDirs ==
    {Dir(FALSE, FALSE, "main", {"index.js"}),
     Dir(TRUE, FALSE, "absent", {"index.cjs", "index.mjs"})}

\* the listings explored: up to MaxFiles entries among a module file, another
\* file and SomeDirs; any single entry; a module file followed by any directory
Listings ==
    UNION {[1..n -> {File(".js"), File(".txt")} \cup SomeDirs] : n \in 0..MaxFiles}
    \cup {<<e>> : e \in FileKinds \cup AllDirs}
    \cup {<<f, d>> : f \in {File(".js")}, d \in AllDirs}

isCommonJSAnyFile(file) == TRUE
\* path.extname(file) === '.js' || path.extname(file) === '.cjs'
isCommonJS(file) == file.ext = ".js" \/ file.ext = ".cjs"
\* path.extname(file) === '.mjs'
isESModule(file) == file.ext = ".mjs"

\* ------------------------------------------------------------- initPlugin
PickInfoDirect(plugin) == plugin.direct.info
\* plugin.info || plugin.default?.info, and the same for init and exit
PickInfo(plugin) ==
    IF Truthy(plugin.direct.info.t) THEN plugin.direct.info ELSE plugin.def.info
PickInit(plugin) ==
    IF Truthy(plugin.direct.init) THEN plugin.direct.init ELSE plugin.def.init
PickExit(plugin) ==
    IF Truthy(plugin.direct.exit) THEN plugin.direct.exit ELSE plugin.def.exit

hasNever(map, id) == FALSE
\* loadedPlugins.has(id)
has(map, id) == id \in DOMAIN map

initPluginChecksNone(plugin, map) == "ok"
\* The checks of initPlugin before it calls init: "ok", or why the module is
\* refused.  A null info passes the typeof test and makes info[field] throw a
\* TypeError, which loadFromFile catches.
initPluginChecks(plugin, map) ==
    LET info == PickInfo(plugin) IN
    IF TypeOf(info.t) # "object" THEN "no_info"
    ELSE IF info.t = "null" THEN "type_error"
    ELSE IF info.id.t # "string" \/ info.name # "string" \/ info.description # "string"
        THEN "missing_field"
    ELSE IF TypeOf(PickInit(plugin)) # "function" THEN "no_init"
    ELSE IF ~isValidPluginID(info.id.s) THEN "invalid_id"
    ELSE IF has(map, info.id.s) THEN "duplicate"
    ELSE "ok"

MountPathShared(id) == <<"/", "api", "/", "plugins", "/">>
\* `/api/plugins/${id}`
MountPath(id) == <<"/", "api", "/", "plugins", "/">> \o id

MountsRouterAlways(n) == TRUE
\* router.stack.length > 0
MountsRouter(n) == n > 0

InitIsNotAwaited(plugin) == FALSE
\* `await init(router)`: initPlugin goes on when init has returned
InitIsAwaited(plugin) == TRUE

RegistersAlways(threw) == TRUE
\* loadedPlugins.set follows `await init(router)`: it runs only when init returned
Registers(threw) == ~threw

\* ------------------------------------------------------ directory resolution
EntryOrderIndexFirst == <<"index.js", "package.json", "index.cjs", "index.mjs">>
\* loadFromDirectory tries package.json's main, then index.js, index.cjs, index.mjs
EntryOrder == <<"package.json", "index.js", "index.cjs", "index.mjs">>

\* Whether loadFromDirectory calls loadFromFile for this name: package.json must
\* exist, parse and declare a main; an index file must exist.
HasEntry(dc, name) ==
    IF name = "package.json" THEN dc.pkg = "main" ELSE name \in dc.idx

\* The file loadFromFile is given at a stage
FileName(s) ==
    IF s = 0 THEN "self"
    ELSE IF EntryOrder[s] = "package.json" THEN "main" ELSE EntryOrder[s]

RECURSIVE NextStage(_, _)
NextStage(dc, s) ==
    IF s > Len(EntryOrder) THEN s
    ELSE IF HasEntry(dc, EntryOrder[s]) THEN s
    ELSE NextStage(dc, s + 1)

\* fs calls of loadFromDirectory and loadFromPackage on a non-empty directory
ResolveFsOps(dc) ==
    {"existsSync"} \cup (IF dc.pkg # "absent" THEN {"readFileSync"} ELSE {})

LoadFailureEscapes(r) == r \notin {"import_error", "type_error", "init_error"}
\* loadFromFile wraps import and initPlugin in try/catch and returns false
LoadFailureIsCaught(r) == TRUE

StopsNever(ok) == FALSE
\* loadFromDirectory returns as soon as a load returned true
StopsResolution(ok) == ok

\* ---------------------------------------------------------------- git update
GitOutcomes ==
    {"notrepo", "fail_checkIsRepo", "fail_fetch", "fail_head", "fail_upstream",
     "fail_log", "uptodate", "pulled", "fail_pull", "fail_latest"}

\* The git calls made for one directory, by how its try block ends
GitOpsOf(o) ==
    {"checkIsRepo"}
    \cup (IF o \in {"notrepo", "fail_checkIsRepo"} THEN {} ELSE {"fetch"})
    \cup (IF o \in {"notrepo", "fail_checkIsRepo", "fail_fetch"} THEN {} ELSE {"revparse"})
    \cup (IF o \in {"fail_log", "uptodate", "pulled", "fail_pull", "fail_latest"}
          THEN {"log"} ELSE {})
    \cup (IF o \in {"pulled", "fail_pull", "fail_latest"} THEN {"pull"} ELSE {})

\* whether the try block ends in the catch
UpdateThrows(o) ==
    o \in {"fail_checkIsRepo", "fail_fetch", "fail_head", "fail_upstream", "fail_log",
           "fail_pull", "fail_latest"}

UpdateFailureEscapes(o) == FALSE
\* the body of the loop is a try block whose catch logs the error: the loop goes on
UpdateFailureIsCaught(o) == TRUE

\* A repository has HEAD = "A"; its upstream is the same commit, or a commit
\* "B" that is ahead of HEAD (HEAD is behind), behind it (HEAD is ahead), or
\* on another branch of the history (diverged).  "c0" is their common root.
Relations == {"same", "behind", "ahead", "diverged"}
\* revparse(['--abbrev-ref', '@{u}']), as a commit
Upstream(rel) == IF rel = "same" THEN "A" ELSE "B"
\* the commits reachable from commit c
Ancestors(c, rel) ==
    IF c = "A" THEN {"c0", "A"} \cup (IF rel = "ahead" THEN {"B"} ELSE {})
    ELSE {"c0", "B"} \cup (IF rel = "behind" THEN {"A"} ELSE {})
\* log({ from: commitHash, to: trackingBranch }): reachable from upstream, not from HEAD
CommitRange(rel) == Ancestors(Upstream(rel), rel) \ Ancestors("A", rel)

NothingToPullNever(total) == FALSE
\* log.total === 0
NothingToPull(total) == total = 0

\* HEAD after pull() returned: unchanged when upstream holds nothing new, upstream
\* when HEAD is one of its ancestors (fast-forward), else a merge commit "M"
HeadAfterPull(rel) ==
    IF CommitRange(rel) = {} THEN "A"
    ELSE IF "A" \in Ancestors(Upstream(rel), rel) THEN Upstream(rel)
    ELSE "M"

\* the git call that throws in an iteration, if it is reached
GitFailures == {"none", "checkIsRepo", "fetch", "head", "upstream", "log", "pull", "latest"}

\* how the try block ends for a directory
UpdateOutcome(isRepo, rel, fail) ==
    IF fail = "checkIsRepo" THEN "fail_checkIsRepo"
    ELSE IF ~isRepo THEN "notrepo"
    ELSE IF fail = "fetch" THEN "fail_fetch"
    ELSE IF fail = "head" THEN "fail_head"
    ELSE IF fail = "upstream" THEN "fail_upstream"
    ELSE IF fail = "log" THEN "fail_log"
    ELSE IF NothingToPull(Cardinality(CommitRange(rel))) THEN "uptodate"
    ELSE IF fail = "pull" THEN "fail_pull"
    ELSE IF fail = "latest" THEN "fail_latest"
    ELSE "pulled"

NoRepo == [rel |-> "none", pulls |-> 0, pulled |-> FALSE, head |-> "none"]
\* the repository after an iteration that got as far as the log: the number of
\* pull() calls, whether pull returned, and HEAD
RepoAfter(rel, o) ==
    IF "log" \notin GitOpsOf(o) \/ o = "fail_log" THEN NoRepo
    ELSE [rel |-> rel,
          pulls |-> IF "pull" \in GitOpsOf(o) THEN 1 ELSE 0,
          pulled |-> o \in {"pulled", "fail_latest"},
          head |-> IF o \in {"pulled", "fail_latest"} THEN HeadAfterPull(rel) ELSE "A"]

\* what commandExistsSync('git') can return on the host
commandExistsSync(host) == IF host = "any" THEN BOOLEAN ELSE {host = "yes"}

MissingGitReportsPerDirectory(n) == n
\* console.error('Git is not installed...') stands before the loop
MissingGitReports(n) == 1

UpdateIsNotAwaited == FALSE
\* `await updatePlugins(pluginsPath)`: loadPlugins goes on when the update is over
UpdateIsAwaited == TRUE


\* ---------------------------------------------------------------------- Init
Init ==
    /\ enableServerPlugins \in BOOLEAN
    /\ enableServerPluginsAutoUpdate \in BOOLEAN
    /\ pluginsDir \in {"absent", "unreadable", "ok"}
    /\ listing \in Listings
    /\ pluginsDir = "absent" => listing = <<>>
    /\ disk = [k \in DOMAIN listing |-> "any"]
    /\ gitInstalled = "any"
    /\ pc = "start"
    /\ files = <<>>
    /\ i = 1
    /\ directories = <<>>
    /\ u = 1
    /\ stage = 0
    /\ cur = NoModule
    /\ loadedPlugins = <<>>
    /\ mounts = <<>>
    /\ exitHooks = <<>>
    /\ fsOps = {}
    /\ gitOps = {}
    /\ gitMissing = FALSE
    /\ gitReports = 0
    /\ repo = NoRepo
    /\ gitDirs = <<>>
    /\ updateFailed = {}
    /\ updateEntered = FALSE
    /\ imported = <<>>
    /\ last = "none"
    /\ routed = FALSE
    /\ inflight = {}
    /\ setCalls = [id \in IdPool |-> 0]
    /\ teardownFn = "none"
    /\ hookState = <<>>
    /\ tdPromise = "none"
    /\ tdReason = {}


\* --------------------------------------------------------------- loadPlugins
NoPluginsNever(fs) == FALSE
\* files.length === 0
NoPluginsToLoad(fs) == Len(fs) = 0

StartFsOpsProbeFirst ==
    IF pluginsDir = "absent" THEN {"existsSync"} ELSE {"existsSync", "readdirSync"}
\* fs calls of loadPlugins before updatePlugins: none when plugins are disabled
StartFsOps ==
    IF ~enableServerPlugins THEN {}
    ELSE IF pluginsDir = "absent" THEN {"existsSync"}
    ELSE {"existsSync", "readdirSync"}

\* loadPlugins up to `await updatePlugins(pluginsPath)`: return emptyFn when
\* plugins are disabled, the directory does not exist or the listing is empty;
\* readdirSync throws when the directory cannot be read
Start ==
    /\ pc = "start"
    /\ fsOps' = fsOps \cup StartFsOps
    /\ IF ~enableServerPlugins \/ pluginsDir = "absent"
       THEN teardownFn' = "emptyFn" /\ pc' = "returned" /\ files' = files
       ELSE IF pluginsDir = "unreadable"
       THEN pc' = "failed" /\ UNCHANGED <<files, teardownFn>>
       ELSE IF NoPluginsToLoad(listing)
       THEN teardownFn' = "emptyFn" /\ pc' = "returned" /\ files' = listing
       ELSE pc' = "update" /\ files' = listing /\ teardownFn' = teardownFn
    /\ UNCHANGED <<config, i, stage, cur, imported, last, routed, inflight, updVars, regVars,
                   hookState, tdPromise, tdReason>>

UpdateDirectoriesHiddenToo ==
    LET RECURSIVE Pick(_)
        Pick(k) ==
            IF k > Len(listing) THEN <<>>
            ELSE (IF listing[k].isDir THEN <<k>> ELSE <<>>) \o Pick(k + 1)
    IN Pick(1)

\* readdirSync(pluginsPath) filtered: not hidden, and a directory
UpdateDirectories ==
    LET RECURSIVE Pick(_)
        Pick(k) ==
            IF k > Len(listing) THEN <<>>
            ELSE (IF ~listing[k].hidden /\ listing[k].isDir THEN <<k>> ELSE <<>>)
                 \o Pick(k + 1)
    IN Pick(1)

\* the for loop of updatePlugins has been entered and has directories left
UpdateRunning ==
    /\ updateEntered /\ enableServerPluginsAutoUpdate /\ ~gitMissing
    /\ pc \notin {"start", "update", "failed"}

\* updatePlugins up to its for loop
EnterUpdate ==
    /\ pc = "update"
    /\ updateEntered' = TRUE
    /\ IF ~enableServerPluginsAutoUpdate
       THEN pc' = "loading" /\ UNCHANGED <<directories, fsOps, gitMissing, gitReports>>
       ELSE /\ fsOps' = fsOps \cup {"readdirSync", "statSync"}
            /\ directories' = UpdateDirectories
            /\ IF Len(UpdateDirectories) = 0
               THEN pc' = "loading" /\ UNCHANGED <<gitMissing, gitReports>>
               ELSE \E installed \in commandExistsSync(gitInstalled) :
                    /\ gitMissing' = ~installed
                    /\ IF ~installed
                       THEN /\ gitReports' = gitReports
                                    + MissingGitReports(Len(UpdateDirectories))
                            /\ pc' = "loading"
                       ELSE /\ gitReports' = gitReports
                            /\ pc' = IF UpdateIsAwaited THEN "updating" ELSE "loading"
    /\ UNCHANGED <<config, files, i, stage, cur, imported, last, routed, inflight, u,
                   gitOps, gitDirs, repo, updateFailed, regVars, tdVars>>

\* one iteration of the for loop of updatePlugins: its try block and catch
UpdateDirectory ==
    /\ IF UpdateIsAwaited THEN pc = "updating" ELSE UpdateRunning
    /\ u <= Len(directories)
    /\ \E isRepo \in BOOLEAN, rel \in Relations, fail \in GitFailures :
        LET o == UpdateOutcome(isRepo, rel, fail) IN
        /\ o \in GitOutcomes
        /\ gitOps' = IF u = Len(directories) THEN {} ELSE GitOpsOf(o)
        /\ repo' = IF u = Len(directories) THEN NoRepo ELSE RepoAfter(rel, o)
        /\ updateFailed' = IF UpdateThrows(o) THEN updateFailed \cup {directories[u]}
                           ELSE updateFailed
        /\ pc' = IF UpdateThrows(o) /\ ~UpdateFailureIsCaught(o) THEN "failed"
                 ELSE IF ~UpdateIsAwaited THEN pc
                 ELSE IF u = Len(directories) THEN "loading" ELSE "updating"
    /\ gitDirs' = Append(gitDirs, directories[u])
    /\ u' = u + 1
    /\ UNCHANGED <<config, files, i, stage, cur, imported, last, routed, inflight, directories,
                   gitMissing, gitReports, updateEntered, regVars, tdVars, fsOps>>

\* `continue` / return to the for loop of loadPlugins
NextEntry ==
    /\ pc' = "loading"
    /\ i' = i + 1
    /\ stage' = 0

\* what follows a call of loadFromFile that ended with outcome r (ok: it
\* returned true): the next entry file of the directory, or the next entry
AfterLoad(ok, r) ==
    /\ last' = r
    /\ IF ~ok /\ ~LoadFailureIsCaught(r)
       THEN pc' = "failed" /\ UNCHANGED <<i, stage>>
       ELSE IF stage = 0 \/ StopsResolution(ok) THEN NextEntry
       ELSE LET t == NextStage(files[i], stage + 1) IN
            IF t <= Len(EntryOrder)
            THEN pc' = "importing" /\ stage' = t /\ i' = i
            ELSE NextEntry

\* loadFromFile returns: its entry has no call under way any more, unless
\* loadFromDirectory calls it again for the next entry file
Return(ok, r) ==
    /\ AfterLoad(ok, r)
    /\ inflight' = IF pc' = "importing" THEN inflight ELSE inflight \ {i}

\* one iteration of the for loop of loadPlugins, up to the first import
LoopNext ==
    /\ pc = "loading"
    /\ i <= Len(files)
    /\ imported' = <<>>
    /\ last' = "none"
    /\ routed' = FALSE
    /\ IF files[i].isDir
       THEN IF files[i].empty
            THEN /\ fsOps' = fsOps \cup {"statSync", "readdirSync"}
                 /\ NextEntry
            ELSE /\ fsOps' = fsOps \cup {"statSync", "readdirSync"}
                                   \cup ResolveFsOps(files[i])
                 /\ LET t == NextStage(files[i], 1) IN
                    IF t <= Len(EntryOrder)
                    THEN pc' = "importing" /\ stage' = t /\ i' = i
                    ELSE NextEntry
       ELSE /\ fsOps' = fsOps \cup {"statSync"}
            /\ IF ~isCommonJS(files[i]) /\ ~isESModule(files[i])
               THEN NextEntry
               ELSE pc' = "importing" /\ UNCHANGED <<i, stage>>
    /\ inflight' = IF pc' = "importing" THEN inflight \cup {i} ELSE inflight
    /\ UNCHANGED <<config, files, cur, updVars, regVars, tdVars>>

\* loadFromFile: `await import(fileUrl)` throws
ImportThrows ==
    /\ pc = "importing"
    /\ ThrowsOnImport(disk[i])
    /\ imported' = Append(imported, FileName(stage))
    /\ routed' = FALSE
    /\ Return(FALSE, "import_error")
    /\ UNCHANGED <<config, files, cur, updVars, regVars, tdVars, fsOps>>

\* initPlugin(plugin) up to `await init(router)`: the checks, then the call of
\* init, or `return false` (a TypeError is caught by loadFromFile).  Were init
\* not awaited, loadFromFile would return with init still under way.
initPluginCall(plugin) ==
    LET r == initPluginChecks(plugin, loadedPlugins) IN
    /\ routed' = FALSE
    /\ IF r = "ok"
       THEN IF InitIsAwaited(plugin)
            THEN /\ pc' = "initialising"
                 /\ cur' = plugin
                 /\ UNCHANGED <<i, stage, last, inflight>>
            ELSE /\ AfterLoad(TRUE, "loaded")
                 /\ UNCHANGED <<cur, inflight>>
       ELSE /\ Return(FALSE, r)
            /\ cur' = cur

\* loadFromFile: the import resolves, initPlugin checks the module and calls init
ImportResolves ==
    /\ pc = "importing"
    /\ imported' = Append(imported, FileName(stage))
    /\ \E plugin \in ModulesAt(disk[i]) : initPluginCall(plugin)
    /\ UNCHANGED <<config, files, updVars, regVars, tdVars, fsOps>>

\* initPlugin from the end of `await init(router)` to its return; init added
\* some routes to the router and returned, or threw (or its promise rejected)
InitSettles ==
    /\ pc = "initialising"
    /\ \E init \in InitsAt(disk[i]) :
       LET routes == init.routes
           threw == init.threw
           id == PickInfo(cur).id.s
           file == [entry |-> i, name |-> FileName(stage)]
       IN /\ IF Registers(threw)
             THEN /\ loadedPlugins' =
                        [k \in DOMAIN loadedPlugins \cup {id} |->
                            IF k = id THEN file ELSE loadedPlugins[k]]
                  /\ setCalls' = [setCalls EXCEPT ![id] = @ + 1]
             ELSE UNCHANGED <<loadedPlugins, setCalls>>
          /\ routed' = (routes > 0)
          /\ mounts' = IF ~threw /\ MountsRouter(routes)
                       THEN Append(mounts, [path |-> MountPath(id), owner |-> file])
                       ELSE mounts
          /\ exitHooks' = IF ~threw /\ TypeOf(PickExit(cur)) = "function"
                          THEN Append(exitHooks, [id |-> id, file |-> file])
                          ELSE exitHooks
          /\ Return(~threw, IF threw THEN "init_error" ELSE "loaded")
    /\ cur' = NoModule
    /\ UNCHANGED <<config, files, imported, updVars, tdVars, fsOps>>

\* the end of loadPlugins: return () => Promise.all(exitHooks.map(exitFn => exitFn()))
Finish ==
    /\ pc = "loading"
    /\ i > Len(files)
    /\ pc' = "returned"
    /\ teardownFn' = "aggregate"
    /\ imported' = <<>>
    /\ last' = "none"
    /\ routed' = FALSE
    /\ UNCHANGED <<config, files, i, stage, cur, inflight, updVars, regVars,
                   hookState, tdPromise, tdReason, fsOps>>

\* ------------------------------------------------------------------ teardown
HookBehaviours == {"throws", "promise"}

\* exitHooks.map(exitFn => exitFn()): the hooks are called in order; one that
\* throws ends the map, and the call of the teardown function throws
MapHooks(beh) ==
    LET n == Len(exitHooks)
        thrower == {k \in 1..n : beh[k] = "throws"}
        first == IF thrower = {} THEN n + 1
                 ELSE CHOOSE k \in thrower : \A j \in thrower : k <= j
    IN [k \in 1..n |->
            IF k > first THEN "notcalled"
            ELSE IF beh[k] = "throws" THEN "threw"
            ELSE "pending"]

\* Promise.all: rejected with the first rejection, fulfilled when all are
PromiseAll(hs) ==
    IF \E k \in DOMAIN hs : hs[k] = "rejected" THEN "rejected"
    ELSE IF \A k \in DOMAIN hs : hs[k] = "resolved" THEN "resolved"
    ELSE "pending"

\* the host calls the function loadPlugins returned
CallTeardown ==
    /\ pc = "returned"
    /\ tdPromise = "none"
    /\ IF teardownFn = "emptyFn"
       THEN tdPromise' = "returned" /\ UNCHANGED <<hookState, tdReason>>
       ELSE \E beh \in [1..Len(exitHooks) -> HookBehaviours] :
            LET hs == MapHooks(beh) IN
            /\ hookState' = hs
            /\ IF \E k \in DOMAIN hs : hs[k] = "threw"
               THEN /\ tdPromise' = "threw"
                    /\ tdReason' = {exitHooks[k].id : k \in {j \in DOMAIN hs : hs[j] = "threw"}}
               ELSE /\ tdPromise' = PromiseAll(hs)
                    /\ tdReason' = {}
    /\ UNCHANGED <<config, loadVars, updVars, regVars, teardownFn, fsOps>>

\* the promise an exit hook returned settles
HookSettles ==
    /\ \E k \in DOMAIN hookState, o \in {"resolved", "rejected"} :
        /\ hookState[k] = "pending"
        /\ hookState' = [hookState EXCEPT ![k] = o]
        /\ IF tdPromise = "pending"
           THEN /\ tdPromise' = PromiseAll(hookState')
                /\ tdReason' = IF o = "rejected" THEN {exitHooks[k].id} ELSE {}
           ELSE UNCHANGED <<tdPromise, tdReason>>
    /\ UNCHANGED <<config, loadVars, updVars, regVars, teardownFn, fsOps>>

Next ==
    \/ Start
    \/ EnterUpdate
    \/ UpdateDirectory
    \/ LoopNext
    \/ ImportThrows
    \/ ImportResolves
    \/ InitSettles
    \/ Finish
    \/ CallTeardown
    \/ HookSettles

Spec == Init /\ [][Next]_vars


\* Every awaited call (import, init, a git call) returns or throws, and the
\* event loop then resumes loadPlugins: the steps of loadPlugins are taken
\* whenever they are enabled.
LoadStep ==
    Start \/ EnterUpdate \/ UpdateDirectory \/ LoopNext \/ ImportThrows
    \/ ImportResolves \/ InitSettles \/ Finish

\* loadPlugins alone, up to its return
LiveSpec == Init /\ [][LoadStep]_vars /\ WF_vars(LoadStep)

\* ---------------------------------------------------------- initPlugin alone
\* The checks of initPlugin on one imported module, for every shape of its
\* exports: the module is fixed in the initial state, as the second entry of a
\* listing whose first entry registered the id "a" or nothing.
DescriptorIds ==
    IdPool \cup {<<"_">>, <<"-">>, <<"z", "9">>, <<"a", " ">>, <<"a", ".", "b">>}
FieldTypes == {"undefined", "string", "number"}
Primitive(t) == [t |-> t, id |-> NoVal, name |-> "undefined", description |-> "undefined"]
DescriptorInfos ==
    {NoInfo, NullInfo, Primitive("string"), Primitive("function")}
    \cup {InfoObject(idv, n, d) :
            idv \in {NoVal, [t |-> "number", s |-> <<>>]}
                    \cup {StrVal(s) : s \in DescriptorIds},
            n \in FieldTypes, d \in FieldTypes}
InitTypes == {"undefined", "function", "string"}
\* info and init exported directly, by the default export, or one of each
DescriptorCatalogue ==
    {Module(Exports(inf, ini, "undefined"), NoExports) :
        inf \in DescriptorInfos, ini \in InitTypes}
    \cup {Module(NoExports, Exports(inf, ini, "undefined")) :
        inf \in DescriptorInfos, ini \in InitTypes}
    \cup {Module(Exports(inf, "undefined", "undefined"),
                 Exports(NoInfo, ini, "undefined")) :
        inf \in DescriptorInfos, ini \in InitTypes}

ValidateInit ==
    /\ enableServerPlugins = TRUE
    /\ enableServerPluginsAutoUpdate = FALSE
    /\ pluginsDir = "ok"
    /\ listing = <<File(".js"), File(".js")>>
    /\ disk = <<"any", "any">>
    /\ gitInstalled = "any"
    /\ pc = "importing"
    /\ files = listing
    /\ i = 2
    /\ directories = <<>>
    /\ u = 1
    /\ stage = 0
    /\ cur \in DescriptorCatalogue
    /\ loadedPlugins \in {<<>>, (<<"a">> :> [entry |-> 1, name |-> "self"])}
    /\ mounts = <<>>
    /\ exitHooks = <<>>
    /\ fsOps = {"existsSync", "readdirSync", "statSync"}
    /\ gitOps = {}
    /\ gitMissing = FALSE
    /\ gitReports = 0
    /\ repo = NoRepo
    /\ gitDirs = <<>>
    /\ updateFailed = {}
    /\ updateEntered = TRUE
    /\ imported = <<>>
    /\ last = "none"
    /\ routed = FALSE
    /\ inflight = {2}
    /\ setCalls = [id \in IdPool |-> IF id \in DOMAIN loadedPlugins THEN 1 ELSE 0]
    /\ teardownFn = "none"
    /\ hookState = <<>>
    /\ tdPromise = "none"
    /\ tdReason = {}

\* loadFromFile for the module of the initial state: its import resolves and
\* initPlugin checks it
ImportDescriptor ==
    /\ pc = "importing"
    /\ imported' = Append(imported, FileName(stage))
    /\ initPluginCall(cur)
    /\ UNCHANGED <<config, files, updVars, regVars, tdVars, fsOps>>

ValidateSpec == ValidateInit /\ [][ImportDescriptor]_vars

\* ------------------------------------------------------- shapes of a module
\* initPlugin and init on one imported module that supplies info, init and
\* exit as direct exports ("direct"), through its default export only
\* ("default"), or both ways ("both"); the shape is what the file of the second
\* entry holds, the module is fixed in the initial state.
ExportInfos ==
    {NoInfo, NullInfo, GoodInfo(<<"a">>), GoodInfo(<<"b", "-", "1">>), GoodInfo(<<"A">>),
     InfoObject(StrVal(<<"a">>), "number", "string")}
ExportValues ==
    {Exports(inf, ini, ex) :
        inf \in ExportInfos,
        ini \in {"undefined", "function", "string"},
        ex \in {"undefined", "function", "string"}}
ShapedModules(shape) ==
    CASE shape = "direct" -> {Module(e, NoExports) : e \in ExportValues}
      [] shape = "default" -> {Module(NoExports, e) : e \in ExportValues}
      [] shape = "both" -> {Module(d, e) : d \in ExportValues, e \in ExportValues}

WrapperInit ==
    /\ enableServerPlugins = TRUE
    /\ enableServerPluginsAutoUpdate = FALSE
    /\ pluginsDir = "ok"
    /\ listing = <<File(".js"), File(".mjs")>>
    /\ \E shape \in {"direct", "default", "both"} :
        /\ disk = <<"any", shape>>
        /\ cur \in ShapedModules(shape)
    /\ gitInstalled = "any"
    /\ pc = "importing"
    /\ files = listing
    /\ i = 2
    /\ directories = <<>>
    /\ u = 1
    /\ stage = 0
    /\ loadedPlugins \in {<<>>, (<<"a">> :> [entry |-> 1, name |-> "self"])}
    /\ mounts = <<>>
    /\ exitHooks = <<>>
    /\ fsOps = {"existsSync", "readdirSync", "statSync"}
    /\ gitOps = {}
    /\ gitMissing = FALSE
    /\ gitReports = 0
    /\ repo = NoRepo
    /\ gitDirs = <<>>
    /\ updateFailed = {}
    /\ updateEntered = TRUE
    /\ imported = <<>>
    /\ last = "none"
    /\ routed = FALSE
    /\ inflight = {2}
    /\ setCalls = [id \in IdPool |-> IF id \in DOMAIN loadedPlugins THEN 1 ELSE 0]
    /\ teardownFn = "none"
    /\ hookState = <<>>
    /\ tdPromise = "none"
    /\ tdReason = {}

\* loadFromFile for the module of the initial state, to its return
WrapperStep == ImportDescriptor \/ InitSettles

WrapperSpec == WrapperInit /\ [][WrapperStep]_vars

\* ------------------------------------------------------- given plugin roots
\* loadPlugins on plugin directories whose files are given: foo.js, bar/ and
\* baz.js in every order of the listing, and two candidates that declare the
\* same id (each a file, or a directory with a main file and an index.js), on
\* a host with git and on one without.
FooEntry == [entry |-> File(".js"), holds |-> "foo.js"]
BarEntry == [entry |-> Dir(FALSE, FALSE, "main", {}), holds |-> "bar"]
BazEntry == [entry |-> File(".js"), holds |-> "baz.js"]
EndToEndRoots ==
    {r \in [1..3 -> {FooEntry, BarEntry, BazEntry}] :
        \A j, k \in 1..3 : r[j] = r[k] => j = k}
TwinEntries ==
    {[entry |-> e, holds |-> "twin"] :
        e \in {File(".js"), Dir(FALSE, FALSE, "main", {"index.js"})}}
TwinRoots == [1..2 -> TwinEntries]
RootIds == {<<"a">>, <<"f", "o", "o">>, <<"b", "a", "r">>}

RootsInit ==
    /\ enableServerPlugins = TRUE
    /\ enableServerPluginsAutoUpdate \in BOOLEAN
    /\ pluginsDir = "ok"
    /\ \E root \in EndToEndRoots \cup TwinRoots :
        /\ listing = [k \in DOMAIN root |-> root[k].entry]
        /\ disk = [k \in DOMAIN root |-> root[k].holds]
    /\ gitInstalled \in {"yes", "no"}
    /\ pc = "start"
    /\ files = <<>>
    /\ i = 1
    /\ directories = <<>>
    /\ u = 1
    /\ stage = 0
    /\ cur = NoModule
    /\ loadedPlugins = <<>>
    /\ mounts = <<>>
    /\ exitHooks = <<>>
    /\ fsOps = {}
    /\ gitOps = {}
    /\ gitMissing = FALSE
    /\ gitReports = 0
    /\ repo = NoRepo
    /\ gitDirs = <<>>
    /\ updateFailed = {}
    /\ updateEntered = FALSE
    /\ imported = <<>>
    /\ last = "none"
    /\ routed = FALSE
    /\ inflight = {}
    /\ setCalls = [id \in RootIds |-> 0]
    /\ teardownFn = "none"
    /\ hookState = <<>>
    /\ tdPromise = "none"
    /\ tdReason = {}

RootsSpec == RootsInit /\ [][Next]_vars

\* --------------------------------------------------------------------- claims
Registered == DOMAIN loadedPlugins
InDirectory == pc \in {"importing", "initialising"} /\ files[i].isDir
FailedHooks == {k \in DOMAIN hookState : hookState[k] \in {"rejected", "threw"}}

\* C1: once an id is registered, a later candidate declaring it is refused as a
\* duplicate before its init is called, and loadedPlugins.set is called at most
\* once for an id, so the record of the first registration is never replaced.
C1_DuplicateIdRejected ==
    /\ \A id \in IdPool :
        /\ setCalls[id] <= 1
        /\ setCalls[id] = 1 <=> id \in Registered
    /\ pc = "initialising" => PickInfo(cur).id.s \notin Registered

C1_Witness ==
    /\ last = "duplicate"
    /\ \E id \in Registered : loadedPlugins[id].entry < i

\* C2: when init throws, the registry is left as it was, without a record for
\* the candidate's id, and loadPlugins moves on to the next entry file or the
\* next entry of the listing.
C2_InitFailureNotRegistered ==
    [][(pc = "initialising" /\ last' = "init_error") =>
        /\ loadedPlugins' = loadedPlugins
        /\ PickInfo(cur).id.s \notin DOMAIN loadedPlugins'
        /\ \/ pc' = "loading" /\ i' = i + 1
           \/ pc' = "importing" /\ i' = i /\ stage' > stage]_vars

C2_Witness ==
    /\ last = "init_error"
    /\ pc = "loading"
    /\ i = 2
    /\ Len(files) = 2
    /\ ~files[1].isDir
    /\ Registered = {}

\* C3: when the teardown function has been called, every collected exit hook
\* has been called.
C3_EveryHookInvoked ==
    (teardownFn = "aggregate" /\ tdPromise # "none") =>
        \A k \in DOMAIN exitHooks : hookState[k] # "notcalled"

\* C4: when the teardown has failed and every hook has finished, the failure
\* names exactly the ids of the hooks that failed.
C4_FailureNamesFailedHooks ==
    (tdPromise \in {"rejected", "threw"}
     /\ \A k \in DOMAIN hookState : hookState[k] # "pending") =>
        tdReason = {exitHooks[k].id : k \in FailedHooks}

\* C5: the promise of the teardown function is settled only when every exit
\* hook has finished.
C5_SettlesAfterEveryHook ==
    tdPromise \in {"resolved", "rejected"} =>
        \A k \in DOMAIN hookState : hookState[k] \in {"resolved", "rejected"}

\* C6: with plugins enabled and the plugins directory readable, loadPlugins
\* returns a teardown function, whatever fails for the entries and in the
\* update of the directories.
C6_LoadPluginsReturns ==
    <>((enableServerPlugins /\ pluginsDir = "ok") =>
        (pc = "returned" /\ teardownFn \in {"emptyFn", "aggregate"}))

C6_Witness ==
    /\ pc = "returned"
    /\ teardownFn = "aggregate"
    /\ updateFailed = {1, 2}
    /\ \A k \in 1..Len(files) : files[k].pkg = "main"
    /\ Registered = {}

\* C7: with plugins disabled, loadPlugins returns emptyFn and makes no file
\* system call, no git call and no import.
C7_DisabledTouchesNothing ==
    ~enableServerPlugins =>
        /\ pc \in {"start", "returned"}
        /\ pc = "returned" => teardownFn = "emptyFn"
        /\ fsOps = {}
        /\ gitDirs = <<>> /\ gitOps = {}
        /\ imported = <<>>
        /\ Registered = {}

C7_Witness ==
    /\ ~enableServerPlugins
    /\ pc = "returned"
    /\ pluginsDir = "ok"
    /\ Len(listing) = MaxFiles

\* C8: with plugins enabled and the plugins directory absent or empty,
\* loadPlugins returns emptyFn at once: updatePlugins is not called, nothing is
\* imported, and the registry, the mounts and the exit hooks stay empty.
C8_NothingToLoadReturnsEmptyFn ==
    (enableServerPlugins
     /\ (pluginsDir = "absent" \/ (pluginsDir = "ok" /\ Len(listing) = 0))) =>
        /\ pc \in {"start", "returned"}
        /\ pc = "returned" => teardownFn = "emptyFn"
        /\ ~updateEntered
        /\ gitDirs = <<>> /\ gitOps = {}
        /\ imported = <<>>
        /\ Registered = {} /\ mounts = <<>> /\ exitHooks = <<>>

C8_Witness ==
    /\ enableServerPlugins
    /\ pluginsDir = "ok"
    /\ listing = <<>>
    /\ pc = "returned"

\* C9 as stated: at most one entry file of a directory is ever imported.
C9_AtMostOneEntryFileImported == Len(imported) <= 1

\* the entry files of directory dc that loadFromDirectory gives to
\* loadFromFile, in the order of EntryOrder, up to position n
RECURSIVE EntriesUpTo(_, _)
EntriesUpTo(dc, n) ==
    IF n = 0 THEN <<>>
    ELSE EntriesUpTo(dc, n - 1)
         \o (IF HasEntry(dc, EntryOrder[n]) THEN <<FileName(n)>> ELSE <<>>)

\* C9 amended: the entry files of a directory are imported in the order manifest
\* main, index.js, index.cjs, index.mjs, a file only after every existing file
\* before it was imported and failed to load; once an entry file has loaded, no
\* other entry file of the directory is imported, so at most one is registered.
C9_FallbackUntilOneLoads ==
    /\ (pc = "importing" /\ files[i].isDir) =>
            imported = EntriesUpTo(files[i], stage - 1)
    /\ (pc = "initialising" /\ files[i].isDir) =>
            imported = EntriesUpTo(files[i], stage)
    /\ InDirectory => \A id \in Registered : loadedPlugins[id].entry # i
    /\ \A id1, id2 \in Registered :
            loadedPlugins[id1].entry = loadedPlugins[id2].entry => id1 = id2

C9_Witness ==
    /\ pc = "loading"
    /\ last = "loaded"
    /\ imported = <<"main", "index.js", "index.cjs">>

\* C10: in a directory with a manifest main and an index file, the manifest's
\* main file is the first file imported, and when it loads it is the one
\* registered and loadFromDirectory returns without importing an index file.
C10_ManifestFirst ==
    (InDirectory /\ files[i].pkg = "main" /\ files[i].idx # {}) =>
        /\ imported = <<>> => FileName(stage) = "main"
        /\ imported # <<>> => imported[1] = "main"

C10_ManifestWins ==
    [][(pc = "initialising" /\ files[i].isDir /\ files[i].pkg = "main"
        /\ files[i].idx # {} /\ FileName(stage) = "main" /\ last' = "loaded") =>
        /\ PickInfo(cur).id.s \in DOMAIN loadedPlugins'
        /\ loadedPlugins'[PickInfo(cur).id.s] = [entry |-> i, name |-> "main"]
        /\ pc' = "loading" /\ i' = i + 1
        /\ imported' = <<"main">>]_vars

C10_ManifestPrecedence == []C10_ManifestFirst /\ C10_ManifestWins

C10_Witness ==
    /\ pc = "loading"
    /\ last = "loaded"
    /\ imported = <<"main">>
    /\ files[i - 1].idx = IndexFiles
    /\ \E id \in Registered : loadedPlugins[id] = [entry |-> i - 1, name |-> "main"]

\* the identifier grammar ^[a-z0-9_-]+$: a non-empty word over its alphabet
MatchesGrammar(id) ==
    id # <<>> /\ {id[k] : k \in DOMAIN id} \subseteq LowerCase \cup Digits \cup {"_", "-"}

\* the module exports (directly or by its default export) an info object whose
\* id, name and description are strings, with an id of the grammar, and a
\* callable init
WellFormed(plugin) ==
    LET info == IF plugin.direct.info.t \in {"undefined", "null"}
                THEN plugin.def.info ELSE plugin.direct.info
        init == IF plugin.direct.init = "undefined"
                THEN plugin.def.init ELSE plugin.direct.init
    IN /\ info.t = "object"
       /\ info.id.t = "string" /\ info.name = "string" /\ info.description = "string"
       /\ MatchesGrammar(info.id.s)
       /\ init = "function"

\* C11: an imported module gets through the checks of initPlugin (as far as
\* the look-up of its id in the registry) exactly when it exports an info
\* object with string id, name and description, an id of the grammar
\* ^[a-z0-9_-]+$ and a callable init; init is called only for such a module
\* (and only when its id is not registered yet), any other is refused first.
C11_ValidationIff ==
    pc # "importing" =>
        /\ (pc = "initialising" \/ last = "duplicate") <=> WellFormed(cur)
        /\ pc = "initialising" <=>
                (WellFormed(cur) /\ PickInfo(cur).id.s \notin Registered)
        /\ pc # "initialising" => (pc = "loading" /\ i = 3 /\ last # "none")

C11_Witness ==
    /\ pc = "loading"
    /\ last = "invalid_id"
    /\ PickInfo(cur).id.s = <<>>
    /\ cur.def.init = "function"

\* ------------------------------------------------------------- update phase
\* something of the load loop has happened: an entry was passed, or an import
\* or an init is under way or has ended
LoadingStarted ==
    \/ i > 1
    \/ pc \in {"importing", "initialising"}
    \/ imported # <<>>
    \/ last # "none"
    \/ Registered # {}
\* git is run on the directories of updatePlugins
GitRuns == enableServerPluginsAutoUpdate /\ ~gitMissing
\* updatePlugins has returned
UpdateOver == updateEntered /\ pc \notin {"updating", "failed"}
\* no git call is left to make, and the loop of updatePlugins holds no repository
UpdateFinished ==
    /\ updateEntered
    /\ gitOps = {} /\ repo = NoRepo
    /\ IF GitRuns THEN u = Len(directories) + 1 /\ gitDirs = directories
       ELSE u = 1 /\ gitDirs = <<>>
\* the number of times the update loop ran on entry k of the listing
UpdatesRun(k) == Cardinality({n \in DOMAIN gitDirs : gitDirs[n] = k})

\* C12: the update is over before anything is loaded: as soon as the load loop
\* has started, every directory to update has had its git calls (ended or
\* failed) and no git call is left, so none follows an import; and while a
\* directory is still to be updated nothing has been imported or initialised.
C12_UpdateBeforeLoad ==
    /\ LoadingStarted => UpdateFinished
    /\ (pc = "returned" /\ teardownFn = "aggregate") => UpdateFinished
    /\ pc = "updating" => (u <= Len(directories) /\ ~LoadingStarted)

C12_Witness ==
    /\ pc = "initialising"
    /\ i = 1
    /\ gitDirs = <<1, 2>>
    /\ updateFailed = {2}

\* C13 as stated: when git runs, every directory of the listing has been
\* updated exactly once when the update is over.
C13_EveryDirectoryUpdatedOnce ==
    (UpdateOver /\ GitRuns) =>
        \A k \in DOMAIN listing : listing[k].isDir => UpdatesRun(k) = 1

\* C13 amended: when git runs, the update loop has run exactly once on every
\* directory whose name does not start with a dot, and on no other entry, when
\* the update is over, and nothing is loaded before that; the directories
\* with a dot are loaded without having been updated.
C13_VisibleDirectoriesUpdatedOnce ==
    /\ (UpdateOver /\ GitRuns) =>
            \A k \in DOMAIN listing :
                UpdatesRun(k) = IF listing[k].isDir /\ ~listing[k].hidden THEN 1 ELSE 0
    /\ \A k \in DOMAIN listing : UpdatesRun(k) <= 1
    /\ LoadingStarted => UpdateOver

C13_Witness ==
    /\ GitRuns
    /\ pc = "initialising"
    /\ i = 2
    /\ files[1].isDir /\ ~files[1].hidden
    /\ files[2].isDir /\ files[2].hidden
    /\ gitDirs = <<1>>

\* C14: a directory whose update failed stops neither the update loop, which
\* runs on every directory, nor loadPlugins, which passes every entry and
\* returns the teardown function; the entry files of the directory are
\* imported like those of any other.
C14_UpdateFailureIsolated ==
    /\ updateFailed # {} => pc # "failed"
    /\ (UpdateOver /\ GitRuns) => gitDirs = directories
    /\ \A k \in updateFailed :
        /\ pc = "returned" => (teardownFn = "aggregate" /\ i > k)
        /\ (pc = "loading" /\ i = k + 1) =>
                (imported # <<>> <=>
                    (~files[k].empty /\ NextStage(files[k], 1) <= Len(EntryOrder)))

C14_Witness ==
    /\ updateFailed = {1}
    /\ gitDirs = <<1, 2>>
    /\ pc = "loading"
    /\ i = 2
    /\ \E id \in Registered : loadedPlugins[id].entry = 1

C16_MissingGitReportedOnce ==
    (enableServerPluginsAutoUpdate /\ gitInstalled = "no" /\ UpdateOver) =>
        /\ gitDirs = <<>> /\ gitOps = {} /\ repo = NoRepo
        /\ gitReports = 1

\* C16 amended: when git is not installed, no git call is made; the fact is
\* reported once, whatever the number of directories to update, when there is
\* at least one, and not at all when there is none; loadPlugins passes every
\* entry and returns the teardown function.
C16_MissingGitReportedOnceIfNeeded ==
    /\ (enableServerPluginsAutoUpdate /\ gitInstalled = "no" /\ UpdateOver) =>
        /\ gitDirs = <<>> /\ gitOps = {} /\ repo = NoRepo /\ updateFailed = {}
        /\ gitReports = IF Len(directories) > 0 THEN 1 ELSE 0
        /\ pc = "returned" => (teardownFn = "aggregate" /\ i = Len(files) + 1)
    /\ gitReports > 0 => gitInstalled = "no"

C16_Witness ==
    /\ gitInstalled = "no"
    /\ Len(directories) = 2
    /\ gitReports = 1
    /\ pc = "returned"
    /\ Registered # {}

\* --------------------------------------------------------- mounts and order
\* an init has just ended: the file it belongs to is the last one imported
JustInitialised ==
    /\ last \in {"loaded", "init_error"}
    /\ pc \in {"loading", "importing"}
    /\ imported # <<>>
InitialisedFile ==
    [entry |-> IF pc = "loading" THEN i - 1 ELSE i, name |-> imported[Len(imported)]]
Mounted(file) == \E k \in DOMAIN mounts : mounts[k].owner = file
Recorded(file) == \E id \in Registered : loadedPlugins[id] = file

\* C17: the router of a plugin is mounted exactly when its init returned and
\* the router then holds at least one route; a plugin whose init returned is
\* registered whatever the number of routes, one whose init threw is neither
\* registered nor mounted; every mount is at /api/plugins/<id> for the id of
\* a registered plugin, and no plugin is mounted twice.
C17_MountedIffRoutes ==
    /\ JustInitialised =>
        /\ Mounted(InitialisedFile) <=> (last = "loaded" /\ routed)
        /\ Recorded(InitialisedFile) <=> last = "loaded"
    /\ \A k \in DOMAIN mounts :
            \E id \in Registered :
                loadedPlugins[id] = mounts[k].owner /\ mounts[k].path = MountPath(id)
    /\ \A j, k \in DOMAIN mounts : mounts[j].owner = mounts[k].owner => j = k

C17_Witness ==
    /\ JustInitialised
    /\ last = "loaded"
    /\ ~routed
    /\ Recorded(InitialisedFile)
    /\ ~Mounted(InitialisedFile)
    /\ Len(mounts) = 1

\* the position of a given plugin in the listing
PosOf(content) == CHOOSE k \in DOMAIN disk : disk[k] = content
EndToEnd == {disk[k] : k \in DOMAIN disk} = {"foo.js", "bar", "baz.js"}
FooFile == [entry |-> PosOf("foo.js"), name |-> "self"]
BarFile == [entry |-> PosOf("bar"), name |-> "main"]

\* C18: with foo.js, bar/ and baz.js in the plugins directory, in any order:
\* loadPlugins returns the teardown function with exactly foo and bar
\* registered, foo mounted and nothing else, and the exit function of bar as
\* the only exit hook; the one load that fails is the import of baz.js, once;
\* the teardown calls the exit function of bar and nothing else.
C18_EndToEnd ==
    EndToEnd =>
        /\ pc # "failed"
        /\ pc = "returned" =>
            /\ teardownFn = "aggregate"
            /\ Registered = {<<"f", "o", "o">>, <<"b", "a", "r">>}
            /\ loadedPlugins[<<"f", "o", "o">>] = FooFile
            /\ loadedPlugins[<<"b", "a", "r">>] = BarFile
            /\ mounts = <<[path |-> MountPath(<<"f", "o", "o">>), owner |-> FooFile]>>
            /\ exitHooks = <<[id |-> <<"b", "a", "r">>, file |-> BarFile]>>
        /\ \A k \in DOMAIN disk :
            (pc = "loading" /\ i = k + 1) =>
                /\ Len(imported) = 1
                /\ last = IF disk[k] = "baz.js" THEN "import_error" ELSE "loaded"
        /\ last \notin {"none", "loaded"} =>
                (last = "import_error" /\ pc = "loading" /\ disk[i - 1] = "baz.js")
        /\ tdPromise # "none" =>
            /\ Len(hookState) = 1
            /\ hookState[1] # "notcalled"

C18_Witness ==
    /\ disk = <<"baz.js", "bar", "foo.js">>
    /\ enableServerPluginsAutoUpdate
    /\ updateFailed = {2}
    /\ tdPromise = "resolved"
    /\ Cardinality(Registered) = 2

Twins == disk = <<"twin", "twin">>

\* C19 as stated: of two candidates declaring the id "a", the one recorded is
\* the first of the listing.
C19_FirstProcessedRecorded ==
    (Twins /\ <<"a">> \in Registered) => loadedPlugins[<<"a">>].entry = 1

\* C19 amended: of two candidates declaring the id "a", at most one is ever
\* registered, by the only loadedPlugins.set call for the id: the first one
\* whose checks pass and whose init returns.  Once the id is registered no
\* init is called for a candidate declaring it and the record stays; the
\* second of the listing is recorded only when the first was not registered.
C19_FirstRegisteredRecorded ==
    Twins =>
        /\ setCalls[<<"a">>] <= 1
        /\ <<"a">> \in Registered <=> setCalls[<<"a">>] = 1
        /\ pc = "initialising" => <<"a">> \notin Registered
        /\ \A id \in Registered : id = <<"a">> /\ loadedPlugins[id].entry < i
        /\ (pc = "loading" /\ i = 3 /\ last \in {"loaded", "init_error"}) =>
                \A id \in Registered : loadedPlugins[id].entry = 2

C19_Witness ==
    /\ Twins
    /\ pc = "loading"
    /\ i = 3
    /\ last = "duplicate"
    /\ loadedPlugins[<<"a">>].entry = 1

\* C20: at most one entry has a loadFromFile call under way, the current one,
\* and only while its import or its init is awaited; everything registered,
\* mounted or collected comes from entries before the current one, in the
\* order of the listing.
C20_OneCandidateAtATime ==
    /\ Cardinality(inflight) <= 1
    /\ inflight = IF pc \in {"importing", "initialising"} THEN {i} ELSE {}
    /\ \A id \in Registered : loadedPlugins[id].entry < i
    /\ \A k \in DOMAIN mounts : mounts[k].owner.entry < i
    /\ \A j, k \in DOMAIN mounts : j < k => mounts[j].owner.entry < mounts[k].owner.entry
    /\ \A j, k \in DOMAIN exitHooks :
            j < k => exitHooks[j].file.entry < exitHooks[k].file.entry

C20_Witness ==
    /\ pc = "initialising"
    /\ i = 2
    /\ inflight = {2}
    /\ \E id \in Registered : loadedPlugins[id].entry = 1
    /\ Len(exitHooks) = 1

\* ------------------------------------------------- namespaces and the registry
ApiPlugins == <<"/", "api", "/", "plugins", "/">>

\* C21: every mount is at /api/plugins/<id>, for the id under which the
\* mounted plugin is registered, and no two mounts have the same path.
C21_NamespacePerExtension ==
    /\ \A k \in DOMAIN mounts :
        \E id \in Registered :
            /\ loadedPlugins[id] = mounts[k].owner
            /\ mounts[k].path = ApiPlugins \o id
            /\ SubSeq(mounts[k].path, Len(ApiPlugins) + 1, Len(mounts[k].path)) = id
    /\ \A j, k \in DOMAIN mounts : mounts[j].path = mounts[k].path => j = k

C21_Witness ==
    /\ Len(mounts) = 2
    /\ mounts[1].owner.entry = 1
    /\ mounts[2].owner.entry = 2
    /\ mounts[1].path # mounts[2].path
    /\ pc = "returned"

\* a file whose extension is none of .js, .cjs, .mjs
Unrecognised(entry) == ~entry.isDir /\ entry.ext \notin {".js", ".cjs", ".mjs"}

\* C22: the iteration of the load loop on a file without a module extension
\* goes on to the next entry without an import and leaves the registry, the
\* mounts, the exit hooks and everything else the later entries depend on as
\* they were; nothing is ever registered, mounted or collected for such a file.
C22_OtherFilesIgnored ==
    [][/\ (pc = "loading" /\ i <= Len(files) /\ Unrecognised(files[i])) =>
            /\ pc' = "loading"
            /\ i' = i + 1
            /\ imported' = <<>>
            /\ UNCHANGED <<regVars, config, files, cur, inflight, updVars, tdVars>>
       /\ \A id \in DOMAIN loadedPlugins' :
            ~Unrecognised(files'[loadedPlugins'[id].entry])
       /\ \A k \in DOMAIN imported' : ~Unrecognised(files'[i])]_vars

C22_Witness ==
    /\ listing = <<File(".txt"), File(".js")>>
    /\ pc = "returned"
    /\ \E id \in Registered : loadedPlugins[id].entry = 2
    /\ Len(mounts) = 1
    /\ Len(exitHooks) = 1

\* C23: no step removes a record from the registry or changes the module
\* stored under a registered id: the registered ids only grow, by at most the
\* one id a step registers.
C23_RegistryOnlyGrows ==
    [][/\ \A id \in DOMAIN loadedPlugins :
            /\ id \in DOMAIN loadedPlugins'
            /\ loadedPlugins'[id] = loadedPlugins[id]
       /\ Cardinality(DOMAIN loadedPlugins') <= Cardinality(DOMAIN loadedPlugins) + 1]_vars

C23_Witness ==
    /\ Cardinality(Registered) = 2
    /\ \E id \in Registered : loadedPlugins[id] = [entry |-> 1, name |-> "index.js"]
    /\ \E id \in Registered : loadedPlugins[id] = [entry |-> 2, name |-> "self"]
    /\ tdPromise = "rejected"

\* ------------------------------------------------------------ export shapes
\* the exports a module of a given shape is to be treated by: those of its
\* default export when it has nothing else, its direct exports otherwise
TreatedBy(plugin, shape) == IF shape = "default" THEN plugin.def ELSE plugin.direct
\* the module supplies the three values as direct exports
SuppliesDirectly(plugin) ==
    /\ Truthy(plugin.direct.info.t)
    /\ Truthy(plugin.direct.init)
    /\ Truthy(plugin.direct.exit)
\* initPlugin accepts a module with these exports
Accepted(e) ==
    /\ e.info.t = "object"
    /\ e.info.id.t = "string" /\ e.info.name = "string" /\ e.info.description = "string"
    /\ MatchesGrammar(e.info.id.s)
    /\ e.init = "function"
    /\ e.info.id.s \notin Registered

\* C24: what initPlugin does with a module depends on the values of info,
\* init and exit only, not on whether they are direct exports or sit in the
\* default export: init is called exactly when the values are acceptable, and
\* when it returns the record is under the id of info, the router is mounted
\* at /api/plugins/<id> when it has routes and exit is collected when it is a
\* function.  A module that supplies the three values both ways is treated by
\* its direct exports.
C24_ShapesTreatedAlike ==
    [][LET shape == disk[2]
           e == TreatedBy(cur, shape)
           id == e.info.id.s
           file == [entry |-> 2, name |-> "self"]
       IN (shape \in {"direct", "default"} \/ SuppliesDirectly(cur)) =>
            /\ pc = "importing" =>
                /\ pc' = "initialising" <=> Accepted(e)
                /\ UNCHANGED regVars
            /\ pc = "initialising" =>
                IF last' = "loaded"
                THEN /\ loadedPlugins' = (id :> file) @@ loadedPlugins
                     /\ mounts' = IF routed' THEN <<[path |-> ApiPlugins \o id, owner |-> file]>>
                                  ELSE <<>>
                     /\ exitHooks' = IF e.exit = "function"
                                     THEN <<[id |-> id, file |-> file]>> ELSE <<>>
                ELSE UNCHANGED regVars]_vars

C24_Witness ==
    /\ disk[2] = "default"
    /\ last = "loaded"
    /\ loadedPlugins = (<<"a">> :> [entry |-> 1, name |-> "self"])
                        @@ (<<"b", "-", "1">> :> [entry |-> 2, name |-> "self"])
    /\ Len(mounts) = 1
    /\ Len(exitHooks) = 1

\* ------------------------------------------------------- hooks and init calls
\* the exit hooks collected are those of registered plugins, one for a plugin
\* at most
CollectedFromRegistered ==
    /\ \A k \in DOMAIN exitHooks :
        /\ exitHooks[k].id \in Registered
        /\ loadedPlugins[exitHooks[k].id] = exitHooks[k].file
    /\ \A j, k \in DOMAIN exitHooks : exitHooks[j].id = exitHooks[k].id => j = k

\* C25: the exit hooks collected are those of registered plugins, one for a
\* plugin at most, and a call of the teardown function calls each of them
\* (once: a hook has one state in a teardown call).
C25_TeardownCallsCollectedHooks ==
    /\ CollectedFromRegistered
    /\ (teardownFn = "aggregate" /\ tdPromise # "none") =>
        /\ DOMAIN hookState = DOMAIN exitHooks
        /\ \A k \in DOMAIN hookState : hookState[k] \in {"pending", "resolved", "rejected", "threw"}

\* how initPlugin refuses a module before it calls init
Refusals == {"no_info", "type_error", "missing_field", "no_init", "invalid_id", "duplicate"}

\* C26: an init call is under way only for a module that passed every check
\* of initPlugin (an info object with string id, name and description, a
\* callable init, an id of the grammar) and whose id is not registered; when
\* the last load ended with a refusal no init was called for it: no router
\* got a route and the file is neither registered nor mounted.
C26_InitOnlyAfterChecks ==
    /\ pc = "initialising" =>
        /\ WellFormed(cur)
        /\ PickInfo(cur).id.s \notin Registered
        /\ inflight = {i}
    /\ pc # "initialising" => cur = NoModule
    /\ (last \in Refusals /\ pc \in {"loading", "importing"}) =>
        /\ ~routed
        /\ imported # <<>>
        /\ ~Recorded(InitialisedFile)
        /\ ~Mounted(InitialisedFile)

C26_Witness ==
    /\ pc = "initialising"
    /\ i = 2
    /\ files[2].isDir
    /\ last = "duplicate"
    /\ imported = <<"main", "index.js">>
    /\ Registered # {}

\* C27: from the import of a candidate to the throw of its init nothing of the
\* registry, the mounts and the exit hooks changes, whether or not init had
\* added routes to its router: when init throws, no record, mount or hook
\* belongs to the candidate's file and the teardown state is untouched.
C27_InitFailureLeavesNoTrace ==
    [][/\ pc = "importing" => UNCHANGED <<regVars, tdVars>>
       /\ (pc = "initialising" /\ last' = "init_error") =>
            LET file == [entry |-> i, name |-> FileName(stage)] IN
            /\ UNCHANGED <<regVars, tdVars, config, updVars>>
            /\ \A id \in DOMAIN loadedPlugins' : loadedPlugins'[id] # file
            /\ \A k \in DOMAIN mounts' : mounts'[k].owner # file
            /\ \A k \in DOMAIN exitHooks' : exitHooks'[k].file # file
            /\ cur' = NoModule]_vars

C27_Witness ==
    /\ last = "init_error"
    /\ routed
    /\ pc = "loading"
    /\ i = 3
    /\ Cardinality(Registered) = 1
    /\ Len(mounts) = 1
    /\ mounts[1].owner.entry = 1
    /\ Len(exitHooks) = 1

====
